---- MODULE Spec2Model ----
(***************************************************************************)
(* Model of src/src/codehelp.ts: the SonicPi code-help provider.           *)
(*                                                                         *)
(* A string is a sequence of one-character strings, so that indexOf,       *)
(* startsWith, substr and concatenation are computed and not assumed.      *)
(* Offsets are the 0-based offsets of the code; the 1-based indexing of    *)
(* TLA+ sequences shows only inside the helpers below.                     *)
(***************************************************************************)
EXTENDS Integers, Sequences, FiniteSets, TLC

VARIABLES
    commandDescriptions,  \* the registry: own properties in insertion order
    pc,                   \* position of the running callback: "idle", "prune", "return"
    newKeys,              \* init's local newKeys, live between its two halves
    pass,                 \* the last init: what it was given, found and reported
    settled,              \* the registry as the last completed init left it
    call,                 \* the request last served (or the pure function's input)
    reply                 \* what it returned

vars == <<commandDescriptions, pc, newKeys, pass, settled, call, reply>>

(***************************************************************************)
(* Bounds of the model.                                                    *)
(***************************************************************************)
MaxLineLen == 4
MaxSources == 2
MaxParams == 2
MaxExamples == 2

(***************************************************************************)
(* Strings.                                                                *)
(***************************************************************************)
Min(S) == CHOOSE x \in S : \A y \in S : x <= y
Max(S) == CHOOSE x \in S : \A y \in S : x >= y

\* s.substr(from, n), 0-based; n is clipped to the end of s
Substr(s, from, n) == SubSeq(s, from + 1, Min({from + n, Len(s)}))

RECURSIVE Join(_, _)
\* Array.prototype.join
Join(ss, sep) ==
    IF ss = <<>> THEN <<>>
    ELSE IF Len(ss) = 1 THEN ss[1]
    ELSE ss[1] \o sep \o Join(Tail(ss), sep)

\* s.startsWith(p)
StartsWith(s, p) == Len(p) <= Len(s) /\ SubSeq(s, 1, Len(p)) = p

\* needle occurs in s at 0-based offset i
OccursAt(s, needle, i) ==
    /\ i >= 0
    /\ i + Len(needle) <= Len(s)
    /\ SubSeq(s, i + 1, i + Len(needle)) = needle

\* s.indexOf(needle): the first offset, or -1
IndexOf(s, needle) ==
    LET hits == {i \in 0..Len(s) : OccursAt(s, needle, i)}
    IN  IF hits = {} THEN -1 ELSE Min(hits)

Digit == {"0", "1", "2", "3", "4", "5", "6", "7", "8", "9"}
Lower == {"a", "b", "c", "d", "e", "f", "g", "h", "i", "j", "k", "l", "m",
          "n", "o", "p", "q", "r", "s", "t", "u", "v", "w", "x", "y", "z"}
Upper == {"A", "B", "C", "D", "E", "F", "G", "H", "I", "J", "K", "L", "M",
          "N", "O", "P", "Q", "R", "S", "T", "U", "V", "W", "X", "Y", "Z"}
\* \s of a regular expression, as far as one line of a document holds it
Whitespace == {" ", "\t"}
\* the character U+0060, which a TLA+ string cannot hold, by its name
Backquote == "U+0060"

(***************************************************************************)
(* getWordAtCursor.                                                        *)
(***************************************************************************)

\* the class of the scan to the right, taken for the scan to the left too
LeftClassWithApostrophe == Digit \cup Lower \cup Upper \cup {"_", "'"}

\* /^[0-9a-z_]$/i, the class of the scan to the left
LeftClass == Digit \cup Lower \cup Upper \cup {"_"}

\* /^[0-9a-z_']$/i, the class of the scan to the right
RightClass == Digit \cup Lower \cup Upper \cup {"_", "'"}

RECURSIVE StripCommentFrom(_, _)
\* text.replace(/--.*$/, ''): the leftmost "--" and all that follows it go.
\* A line of a document holds no line break, so .* runs to its end.
StripCommentFrom(text, i) ==
    IF i + 2 > Len(text) THEN text
    ELSE IF OccursAt(text, <<"-", "-">>, i) THEN SubSeq(text, 1, i)
    ELSE StripCommentFrom(text, i + 1)

StripComment(text) == StripCommentFrom(text, 0)

RECURSIVE TrimEnd(_)
\* text.replace(/\s+$/, '')
TrimEnd(text) ==
    IF text # <<>> /\ text[Len(text)] \in Whitespace
    THEN TrimEnd(SubSeq(text, 1, Len(text) - 1))
    ELSE text

\* the line getWordAtCursor scans
ScannedLine(text) == TrimEnd(StripComment(text))

RECURSIVE ScanLeft(_, _, _)
\* for(let i=startChar-1;i>=0;i--){ startChar = i; if no match {startChar = i+1; break;} }
ScanLeft(line, i, startChar) ==
    IF i < 0 THEN startChar
    ELSE IF line[i + 1] \notin LeftClass THEN i + 1
    ELSE ScanLeft(line, i - 1, i)

RECURSIVE ScanRight(_, _, _)
\* for(let i=endChar;i<=line.length;i++){ endChar = i; if(i < line.length) if no match break; }
ScanRight(line, i, endChar) ==
    IF i > Len(line) THEN endChar
    ELSE IF i < Len(line) /\ line[i + 1] \notin RightClass THEN i
    ELSE ScanRight(line, i + 1, i)

\* {word: undefined, range: undefined}
NoWord == [defined |-> FALSE, word |-> <<>>, start |-> 0, end |-> 0]

getWordAtCursor(text, character) ==
    LET line == ScannedLine(text)
    IN  IF character > Len(line) THEN NoWord
        ELSE LET startChar == ScanLeft(line, character - 1, character)
                 endChar == ScanRight(line, character, character)
             IN  [defined |-> TRUE,
                  word |-> Substr(line, startChar, endChar - startChar),
                  start |-> startChar,
                  end |-> endChar]

(***************************************************************************)
(* SonicPiCommandDescription.                                              *)
(*                                                                         *)
(* A value that may be undefined, a string or an array of strings is a     *)
(* record with its typeof in t. MarkdownString is its value: isTrusted is  *)
(* set on every one of them and read by none of the code.                  *)
(***************************************************************************)
Undefined == [t |-> "undefined", s |-> <<>>, a |-> <<>>]
OneString(s) == [t |-> "string", s |-> s, a |-> <<>>]
ArrayOf(a) == [t |-> "array", s |-> <<>>, a |-> a]

\* enum CodeHelpDetailLevel
OFF == 0
MINIMUM == 1
NO_EXAMPLES_NO_LINKS == 2
FULL == 3
DetailLevels == {OFF, MINIMUM, NO_EXAMPLES_NO_LINKS, FULL}

\* enum SonicPiTypeDescription, by name; "undefined" is a parameter without one
TypeNames == {"UNKNOWN", "ANY", "RATIONAL_PATTERN", "CONTROL_PATTERN", "TIME_PATTERN"}

\* SonicPiTypeDescription[x.type]: the name of the enum member, as a string
TypeTag(type) ==
    CASE type = "UNKNOWN" -> <<"U", "N", "K", "N", "O", "W", "N">>
      [] type = "ANY" -> <<"A", "N", "Y">>
      [] type = "RATIONAL_PATTERN" ->
            <<"R", "A", "T", "I", "O", "N", "A", "L", "_", "P", "A", "T", "T", "E", "R", "N">>
      [] type = "CONTROL_PATTERN" ->
            <<"C", "O", "N", "T", "R", "O", "L", "_", "P", "A", "T", "T", "E", "R", "N">>
      [] type = "TIME_PATTERN" ->
            <<"T", "I", "M", "E", "_", "P", "A", "T", "T", "E", "R", "N">>

\* new SonicPiParameterDescription(name, help, editable?, type?)
SonicPiParameterDescription(name, help, editable, type) ==
    [name |-> name, help |-> help, editable |-> editable, type |-> type]

Indent == <<" ", " ", " ", " ">>

\* one block of the signature: a string is indented unless it holds a backquote
\* and is indented already
FormattedBlock(cmd) ==
    IF IndexOf(cmd, <<Backquote>>) < 0 \/ IndexOf(cmd, Indent) # 0
    THEN Indent \o cmd
    ELSE cmd

\* the signature the constructor is given or makes up
FormattedCommandOf(command, formattedCommand, parameters, myParameters) ==
    LET given ==
            IF formattedCommand.t = "undefined"
            THEN IF parameters.t = "undefined"
                 THEN OneString(command \o <<" ", "?">>)
                 ELSE OneString(command \o <<" ">> \o
                        Join([i \in 1..Len(myParameters) |-> myParameters[i].name], <<" ">>))
            ELSE formattedCommand
        blocks == IF given.t = "array" THEN given.a ELSE <<given.s>>
    IN  [i \in 1..Len(blocks) |-> FormattedBlock(blocks[i])]

\* x.replace(/(\s*\r?\n)*$/, ''): the longest tail of white space that ends
\* in a line feed goes
StripTrailingBlankLines(x) ==
    LET tails == {i \in 0..Len(x) :
                    /\ \A j \in (i + 1)..Len(x) : x[j] \in Whitespace \cup {"\r", "\n"}
                    /\ (i < Len(x) => x[Len(x)] = "\n")}
    IN  SubSeq(x, 1, Min(tails))

RECURSIVE NormalizeLineBreaks(_)
\* x.replace(/\r?\n/g, "\r\n")
NormalizeLineBreaks(x) ==
    IF x = <<>> THEN <<>>
    ELSE IF OccursAt(x, <<"\r", "\n">>, 0)
         THEN <<"\r", "\n">> \o NormalizeLineBreaks(SubSeq(x, 3, Len(x)))
    ELSE IF x[1] = "\n"
         THEN <<"\r", "\n">> \o NormalizeLineBreaks(Tail(x))
    ELSE <<x[1]>> \o NormalizeLineBreaks(Tail(x))

\* one string of an array of examples, fenced
FencedExample(x) ==
    <<"~", "~", "~", "\n">>
        \o NormalizeLineBreaks(StripTrailingBlankLines(x))
        \o <<"\n", "~", "~", "~", "\n">>

ExamplesOf(examples) ==
    IF examples.t = "undefined" THEN <<>>
    ELSE IF examples.t = "string" THEN <<examples.s>>
    ELSE [i \in 1..Len(examples.a) |-> FencedExample(examples.a[i])]

\* new SonicPiCommandDescription(config)
NewCommandDescription(config) ==
    LET myParameters ==
            IF config.parameters.t = "undefined" THEN <<>>
            ELSE [i \in 1..Len(config.parameters.a) |->
                    LET parm == config.parameters.a[i]
                    IN  [parm EXCEPT !.editable =
                            IF parm.editable = "undefined" THEN "false" ELSE parm.editable]]
    IN  [command |-> config.command,
         formattedCommand |->
            FormattedCommandOf(config.command, config.formattedCommand,
                               config.parameters, myParameters),
         parameters |-> myParameters,
         returns |-> config.returns,
         help |-> config.help,
         examples |-> ExamplesOf(config.examples)]

(***************************************************************************)
(* format.                                                                 *)
(***************************************************************************)

\* const hline = "\r\n- - -\r\n\r\n"
hline == <<"\r", "\n", "-", " ", "-", " ", "-", "\r", "\n", "\r", "\n">>

SignatureSection(d, withCommand) ==
    IF withCommand THEN Join(d.formattedCommand, Indent \o <<"\n">>) ELSE <<>>

\* appended to ms, the text so far
HelpSection(d, ms) ==
    IF d.help.t = "undefined" THEN <<>>
    ELSE (IF Len(ms) > 0 THEN hline ELSE <<>>) \o d.help.s

ParameterLine(x) ==
    <<Backquote>> \o x.name \o <<Backquote, " ">>
        \o (IF x.type # "undefined" THEN <<Backquote>> \o TypeTag(x.type) \o <<Backquote>> ELSE <<>>)
        \o <<" ">> \o x.help

ParameterSection(d) ==
    IF Len(d.parameters) = 0 THEN <<>>
    ELSE hline \o Join([i \in 1..Len(d.parameters) |-> ParameterLine(d.parameters[i])],
                       Indent \o <<"\r", "\n">>)

ReturnsSection(d) ==
    IF d.returns.t = "undefined" THEN <<>>
    ELSE <<"\r", "\n", "\r", "\n">>
            \o <<"R", "e", "t", "u", "r", "n", "s", ":", " ">>
            \o d.returns.s

ExamplesHeading == <<"E", "x", "a", "m", "p", "l", "e", "s", ":", "\r", "\n", "\r", "\n">>

ExamplesSection(d) ==
    IF Len(d.examples) = 0 THEN <<>>
    ELSE hline \o ExamplesHeading \o Join(d.examples, Indent \o <<"\r", "\n">>)

\* format with the levels above MINIMUM built without the signature
formatWithoutSignatureAbove(d, detailLevel, withCommand) ==
    LET ms1 == SignatureSection(d, withCommand)
        ms3 == HelpSection(d, <<>>) \o ParameterSection(d) \o ReturnsSection(d)
        ms4 == ms3 \o ExamplesSection(d)
    IN  IF detailLevel = OFF THEN Undefined
        ELSE IF detailLevel = MINIMUM THEN OneString(ms1)
        ELSE IF detailLevel = NO_EXAMPLES_NO_LINKS THEN OneString(ms3)
        ELSE OneString(ms4)

\* format(detailLevel, withCommand): undefined, or the text
format(d, detailLevel, withCommand) ==
    LET ms1 == SignatureSection(d, withCommand)
        ms2 == ms1 \o HelpSection(d, ms1)
        ms3 == ms2 \o ParameterSection(d) \o ReturnsSection(d)
        ms4 == ms3 \o ExamplesSection(d)
    IN  IF detailLevel = OFF THEN Undefined
        ELSE IF detailLevel = MINIMUM THEN OneString(ms1)
        ELSE IF detailLevel = NO_EXAMPLES_NO_LINKS THEN OneString(ms3)
        ELSE OneString(ms4)

(***************************************************************************)
(* The decoded YAML tree, and parseYamlDefinitions.                        *)
(*                                                                         *)
(* A mapping holds its entries in the order Object.entries gives them; a   *)
(* key is a string always, so the three "Invalid ... key type" throws of   *)
(* the code cannot happen and are not modelled.                            *)
(***************************************************************************)
YString(s) == [t |-> "string", s |-> s, e |-> <<>>]
\* a number, with its decimal form
YNumber(s) == [t |-> "number", s |-> s, e |-> <<>>]
YNull == [t |-> "null", s |-> <<>>, e |-> <<>>]
\* e: a sequence of [k |-> key, v |-> value]
YMapping(e) == [t |-> "mapping", s |-> <<>>, e |-> e]
\* e: a sequence of values
YSequence(e) == [t |-> "sequence", s |-> <<>>, e |-> e]

\* typeof v
TypeOf(v) ==
    IF v.t \in {"null", "mapping", "sequence"} THEN "object" ELSE v.t

\* Array.isArray(v)
IsArray(v) == v.t = "sequence"

DigitChars == <<"0", "1", "2", "3", "4", "5", "6", "7", "8", "9">>

RECURSIVE Decimal(_)
\* String(n) of a natural number
Decimal(n) ==
    IF n < 10 THEN <<DigitChars[n + 1]>>
    ELSE Decimal(n \div 10) \o <<DigitChars[(n % 10) + 1]>>

\* Object.entries(v) of a value that is not null (of null it throws)
ObjectEntries(v) ==
    IF v.t = "mapping" THEN v.e
    ELSE IF v.t = "sequence"
         THEN [i \in 1..Len(v.e) |-> [k |-> Decimal(i - 1), v |-> v.e[i]]]
    ELSE IF v.t = "string"
         THEN [i \in 1..Len(v.s) |-> [k |-> Decimal(i - 1), v |-> YString(<<v.s[i]>>)]]
    ELSE <<>>

RECURSIVE JsString(_)
\* ""+v
JsString(v) ==
    IF v.t \in {"string", "number"} THEN v.s
    ELSE IF v.t = "null" THEN <<"n", "u", "l", "l">>
    ELSE IF v.t = "mapping"
         THEN <<"[", "o", "b", "j", "e", "c", "t", " ", "O", "b", "j", "e", "c", "t", "]">>
    ELSE Join([i \in 1..Len(v.e) |->
                IF v.e[i].t = "null" THEN <<>> ELSE JsString(v.e[i])], <<",">>)

\* value.filter(x => typeof x === 'string')
StringsOf(items) ==
    LET kept == SelectSeq(items, LAMBDA x : x.t = "string")
    IN  [i \in 1..Len(kept) |-> kept[i].s]

\* the property names the parser knows, by meaning
SignatureNames ==
    {<<"c", "m", "d">>,
     <<"f", "o", "r", "m", "a", "t", "t", "e", "d", "C", "o", "m", "m", "a", "n", "d">>}
ReturnNames == {<<"r", "e", "t", "u", "r", "n">>, <<"r", "e", "t", "u", "r", "n", "s">>}
HelpNames == {<<"h", "e", "l", "p">>, <<"d", "o", "c">>}
ParameterNames ==
    {<<"p", "a", "r", "m">>, <<"p", "a", "r", "a", "m">>, <<"p", "a", "r", "a", "m", "s">>,
     <<"p", "a", "r", "a", "m", "e", "t", "e", "r", "s">>}
ExampleNames ==
    {<<"e", "x", "a", "m", "p", "l", "e">>, <<"e", "x", "a", "m", "p", "l", "e", "s">>}

\* the locals of one command's callback, before its properties are read
NoProperties ==
    [parameters |-> Undefined,
     examples |-> Undefined,
     formattedCommand |-> ArrayOf(<<>>),
     help |-> Undefined,
     returns |-> Undefined]

\* the parameters of a parm/param/params/parameters value
ParametersOf(value) ==
    LET es == ObjectEntries(value)
    IN  [i \in 1..Len(es) |->
            SonicPiParameterDescription(es[i].k, JsString(es[i].v), "undefined", "undefined")]

\* the body of the callback over one descriptor's properties
ApplyProperty(L, property, value) ==
    IF property \in SignatureNames
    THEN IF TypeOf(value) = "string"
         THEN [L EXCEPT !.formattedCommand = ArrayOf(<<value.s>>)]
         ELSE IF IsArray(value)
              THEN [L EXCEPT !.formattedCommand = ArrayOf(StringsOf(value.e))]
              ELSE L
    ELSE IF property \in ReturnNames
    THEN IF TypeOf(value) = "string" THEN [L EXCEPT !.returns = OneString(value.s)] ELSE L
    ELSE IF property \in HelpNames
    THEN IF TypeOf(value) = "string" THEN [L EXCEPT !.help = OneString(value.s)] ELSE L
    ELSE IF property \in ParameterNames
    THEN IF TypeOf(value) = "object" /\ value.t # "null"
         THEN [L EXCEPT !.parameters = ArrayOf(ParametersOf(value))]
         ELSE L
    ELSE IF property \in ExampleNames
    THEN IF TypeOf(value) = "string"
         THEN [L EXCEPT !.examples = ArrayOf(<<value.s>>)]
         ELSE IF IsArray(value)
              THEN [L EXCEPT !.examples = ArrayOf(StringsOf(value.e))]
              ELSE L
    ELSE L

RECURSIVE ApplyProperties(_, _)
ApplyProperties(L, entries) ==
    IF entries = <<>> THEN L
    ELSE ApplyProperties(ApplyProperty(L, Head(entries).k, Head(entries).v), Tail(entries))

\* the config the callback hands to the constructor: the examples it has
\* collected are not among its properties
ConfigOf(command, L) ==
    [command |-> command,
     formattedCommand |-> L.formattedCommand,
     parameters |-> L.parameters,
     returns |-> L.returns,
     help |-> L.help,
     examples |-> Undefined]

\* the callback over one top-level entry: the description, or a throw
ParseEntry(command, v) ==
    IF TypeOf(v) = "object"
    THEN LET L == ApplyProperties(NoProperties,
                        IF v.t = "null" THEN <<>> ELSE ObjectEntries(v))
         IN  [ok |-> TRUE, cmd |-> NewCommandDescription(ConfigOf(command, L))]
    ELSE IF TypeOf(v) = "string"
    THEN [ok |-> TRUE, cmd |-> NewCommandDescription(ConfigOf(v.s, NoProperties))]
    ELSE [ok |-> FALSE, cmd |-> NewCommandDescription(ConfigOf(command, NoProperties))]

\* parseYamlDefinitions(ydef): the descriptions, or a throw (ok is FALSE);
\* Object.entries throws of null, and a throw in the callback ends the map
parseYamlDefinitions(ydef) ==
    IF ydef.t = "null" THEN [ok |-> FALSE, cmds |-> <<>>]
    ELSE LET es == ObjectEntries(ydef)
             rs == [i \in 1..Len(es) |-> ParseEntry(es[i].k, es[i].v)]
         IN  IF \A i \in 1..Len(rs) : rs[i].ok
             THEN [ok |-> TRUE, cmds |-> [i \in 1..Len(rs) |-> rs[i].cmd]]
             ELSE [ok |-> FALSE, cmds |-> <<>>]

(***************************************************************************)
(* The registry: commandDescriptions, a plain object ({}).                 *)
(*                                                                         *)
(* Its own properties are kept in the order they were first assigned. A    *)
(* read by key, obj[key], of a key the object does not own goes on to      *)
(* Object.prototype, as for every object an object literal makes.          *)
(***************************************************************************)

\* property names every plain object inherits (some of them)
ObjectPrototypeProperties ==
    {<<"v", "a", "l", "u", "e", "O", "f">>,
     <<"t", "o", "S", "t", "r", "i", "n", "g">>,
     <<"c", "o", "n", "s", "t", "r", "u", "c", "t", "o", "r">>}

OwnKeys(reg) == {reg[i].command : i \in 1..Len(reg)}

\* a canonical array index: such keys come first in Object.keys, in
\* ascending order (keys of ten digits or more do not occur in the model)
IsArrayIndex(k) ==
    /\ k # <<>>
    /\ Len(k) < 10
    /\ \A i \in 1..Len(k) : k[i] \in Digit
    /\ (Len(k) > 1 => k[1] # "0")

RECURSIVE IndexValue(_)
IndexValue(k) ==
    IF k = <<>> THEN 0
    ELSE 10 * IndexValue(SubSeq(k, 1, Len(k) - 1))
            + (CHOOSE d \in 0..9 : DigitChars[d + 1] = k[Len(k)])

RECURSIVE Ascending(_)
\* the array indices of a set of keys, ascending
Ascending(ks) ==
    IF ks = {} THEN <<>>
    ELSE LET least == CHOOSE k \in ks : \A o \in ks : IndexValue(k) <= IndexValue(o)
         IN  <<least>> \o Ascending(ks \ {least})

\* Object.keys(reg)
ObjectKeys(reg) ==
    LET inserted == [i \in 1..Len(reg) |-> reg[i].command]
    IN  Ascending({k \in OwnKeys(reg) : IsArrayIndex(k)})
            \o SelectSeq(inserted, LAMBDA k : ~IsArrayIndex(k))

\* reg[cmd.command] = cmd: an own property keeps its place
Assign(reg, cmd) ==
    IF cmd.command \in OwnKeys(reg)
    THEN [i \in 1..Len(reg) |-> IF reg[i].command = cmd.command THEN cmd ELSE reg[i]]
    ELSE Append(reg, cmd)

\* delete reg[k]
Delete(reg, k) == SelectSeq(reg, LAMBDA d : d.command # k)

\* reg[word]: an own description, what Object.prototype holds, or undefined
Get(reg, word) ==
    IF word \in OwnKeys(reg)
    THEN [t |-> "description", d |-> (CHOOSE d \in {reg[i] : i \in 1..Len(reg)} : d.command = word)]
    ELSE IF word \in ObjectPrototypeProperties
    THEN [t |-> "inherited", d |-> NewCommandDescription(ConfigOf(word, NoProperties))]
    ELSE [t |-> "undefined", d |-> NewCommandDescription(ConfigOf(word, NoProperties))]

(***************************************************************************)
(* init.                                                                   *)
(***************************************************************************)

\* a YamlInfo
YamlInfo(source, ydef) == [source |-> source, ydef |-> ydef]

\* the parse of one source without the try and catch: a throw leaves init
RethrowPerSource(r) ==
    [cmds |-> r.cmds, reported |-> FALSE, raised |-> ~r.ok]

\* the try and catch around one source's parse: a throw is reported and the
\* source gives no description
CatchPerSource(r) ==
    IF r.ok
    THEN [cmds |-> r.cmds, reported |-> FALSE, raised |-> FALSE]
    ELSE [cmds |-> <<>>, reported |-> TRUE, raised |-> FALSE]

\* "parse all yamls": one result for each source
ParseAll(combinedDefinitions) ==
    [i \in 1..Len(combinedDefinitions) |->
        CatchPerSource(parseYamlDefinitions(combinedDefinitions[i].ydef))]

RECURSIVE Flatten(_)
\* "flatten array of arrays"
Flatten(parsed) ==
    IF parsed = <<>> THEN <<>> ELSE Head(parsed).cmds \o Flatten(Tail(parsed))

RECURSIVE AssignAll(_, _)
\* "add new commands": each in turn
AssignAll(reg, cmds) ==
    IF cmds = <<>> THEN reg ELSE AssignAll(Assign(reg, Head(cmds)), Tail(cmds))

\* typeof (newKeys[x]) === 'undefined', of the plain object newKeys
NotInNewKeys(keys, x) ==
    x \notin keys /\ x \notin ObjectPrototypeProperties

RECURSIVE DeleteAll(_, _)
DeleteAll(reg, ks) ==
    IF ks = <<>> THEN reg ELSE DeleteAll(Delete(reg, Head(ks)), Tail(ks))

\* the commands "no longer documented" are removed
PruneStale(reg, keys) ==
    DeleteAll(reg, SelectSeq(ObjectKeys(reg), LAMBDA x : NotInNewKeys(keys, x)))

(***************************************************************************)
(* provideCompletionItems and provideHover.                                *)
(***************************************************************************)

RemoveBackquotes(s) == SelectSeq(s, LAMBDA c : c # Backquote)

\* one CompletionItem
CompletionItemOf(key, cdesc, w) ==
    LET editable == SelectSeq(cdesc.parameters, LAMBDA x : x.editable = "true")
    IN  [label |-> key,
         start |-> w.start,
         end |-> w.end,
         detail |-> Join([i \in 1..Len(cdesc.formattedCommand) |->
                            RemoveBackquotes(cdesc.formattedCommand[i])],
                         Indent \o <<"\n">>),
         insertText |-> cdesc.command
                          \o Join([i \in 1..Len(editable) |-> editable[i].name], <<" ">>)]

\* a match of the word anywhere in the key
KeyContains(k, word) == \E i \in 0..Len(k) : OccursAt(k, word, i)

\* k.startsWith(word)
KeyMatches(k, word) == StartsWith(k, word)

provideCompletionItems(reg, text, character) ==
    LET w == getWordAtCursor(text, character)
    IN  IF ~w.defined THEN [t |-> "undefined", items |-> <<>>]
        ELSE LET matches == SelectSeq(ObjectKeys(reg), LAMBDA k : KeyMatches(k, w.word))
             IN  [t |-> "items",
                  items |-> [i \in 1..Len(matches) |->
                                CompletionItemOf(matches[i], Get(reg, matches[i]).d, w)]]

\* a Hover, undefined, or the TypeError of calling format on a value that has none
provideHover(reg, text, character) ==
    LET w == getWordAtCursor(text, character)
        nothing == [t |-> "undefined", text |-> <<>>, start |-> 0, end |-> 0]
    IN  IF ~w.defined THEN nothing
        ELSE LET commandDescription == Get(reg, w.word)
             IN  IF commandDescription.t = "undefined" THEN nothing
                 ELSE IF commandDescription.t = "inherited"
                      THEN [nothing EXCEPT !.t = "throw"]
                 ELSE LET hovermd == format(commandDescription.d, FULL, TRUE)
                      IN  IF hovermd.t = "undefined" THEN nothing
                          ELSE [t |-> "hover", text |-> hovermd.s,
                                start |-> w.start, end |-> w.end]

(***************************************************************************)
(* The provider as a state machine.                                        *)
(*                                                                         *)
(* init is one synchronous function; its position between the loop that   *)
(* adds and the loop that removes is kept in pc, so that what another      *)
(* callback could see there is a matter of the model and not of its        *)
(* grain. The host runs one callback to its end, and takes its value,      *)
(* before it starts another.                                               *)
(***************************************************************************)

\* definition sources the model loads
NameA == <<"a">>
NameAB == <<"a", "b">>
NameB == <<"b">>
Name7 == <<"7">>
NameValueOf == <<"v", "a", "l", "u", "e", "O", "f">>
HelpKey == <<"h", "e", "l", "p">>
ParamsKey == <<"p", "a", "r", "a", "m", "s">>

SourcePool ==
    {YamlInfo(<<"1">>, YMapping(<<
        [k |-> NameA, v |-> YMapping(<<[k |-> HelpKey, v |-> YString(<<"h">>)]>>)],
        [k |-> NameAB, v |-> YNull]>>)),
     YamlInfo(<<"2">>, YMapping(<<
        [k |-> Name7, v |-> YNull],
        [k |-> NameB, v |-> YNull],
        [k |-> <<"c">>, v |-> YString(NameA)],
        [k |-> NameAB, v |-> YMapping(<<[k |-> ParamsKey,
                                         v |-> YMapping(<<[k |-> <<"x">>, v |-> YNumber(<<"1">>)]>>)]>>)],
        [k |-> NameValueOf, v |-> YNull]>>)),
     YamlInfo(<<"3">>, YMapping(<<
        [k |-> NameB, v |-> YNull],
        [k |-> NameA, v |-> YNumber(<<"7">>)]>>))}

\* the lists of sources init may be given
SourceLists == UNION {[1..n -> SourcePool] : n \in 0..MaxSources}

\* what reading and decoding the default source, synth.yaml, may give
DefaultPath == <<"s", "y", "n", "t", "h", ".", "y", "a", "m", "l">>
FileOutcomes ==
    {[read |-> FALSE, ydef |-> YNull], [read |-> TRUE, ydef |-> YNull]}
        \cup {[read |-> TRUE, ydef |-> s.ydef] : s \in SourcePool}

\* the lines of the document
Documents ==
    {<<"a", "b">>,
     <<"a", " ", "b">>,
     <<"b", "-", "-", "a">>,
     <<".", "7">>,
     NameValueOf}

NoCall == [op |-> "none", text |-> <<>>, character |-> 0, saw |-> <<>>, during |-> "idle"]
NoReply == [t |-> "none"]
NoPass == [sources |-> <<>>, results |-> <<>>, raised |-> FALSE, pruned |-> {}]

Init ==
    /\ commandDescriptions = <<>>
    /\ pc = "idle"
    /\ newKeys = {}
    /\ pass = NoPass
    /\ settled = <<>>
    /\ call = NoCall
    /\ reply = NoReply

\* a callback may start between the two halves of init as well
CallbackMayStartInsideInit == pc \in {"idle", "prune"}

\* a callback starts only when none is running
CallbackMayStart == pc = "idle"

\* init, up to and with the loop that adds; a throw out of the parse of the
\* sources leaves init before it has touched the registry
BeginInit(combinedDefinitions) ==
    LET results == ParseAll(combinedDefinitions)
        cmds == Flatten(results)
        raised == \E i \in 1..Len(results) : results[i].raised
    IN  /\ pass' = [sources |-> combinedDefinitions, results |-> results, raised |-> raised,
                     pruned |-> {}]
        /\ UNCHANGED <<settled, call, reply>>
        /\ IF raised
           THEN UNCHANGED <<commandDescriptions, pc, newKeys>>
           ELSE /\ commandDescriptions' = AssignAll(commandDescriptions, cmds)
                /\ newKeys' = {cmds[i].command : i \in 1..Len(cmds)}
                /\ pc' = "prune"

\* init(yamlCommandDefinitions)
Load ==
    /\ CallbackMayStart
    /\ \E defs \in SourceLists : BeginInit(defs)

\* the command sonicpi.codehelp.reload: init() of the default source
Reload ==
    /\ CallbackMayStart
    /\ \E file \in FileOutcomes :
            BeginInit(IF file.read THEN <<YamlInfo(DefaultPath, file.ydef)>> ELSE <<>>)

\* init, the loop that removes
Prune ==
    /\ pc = "prune"
    /\ commandDescriptions' = PruneStale(commandDescriptions, newKeys)
    /\ settled' = commandDescriptions'
    /\ pass' = [pass EXCEPT !.pruned = OwnKeys(commandDescriptions) \ OwnKeys(commandDescriptions')]
    /\ newKeys' = {}
    /\ pc' = "idle"
    /\ UNCHANGED <<call, reply>>

Cursors(text) == 0..(Len(text) + 1)

Hover ==
    /\ CallbackMayStart
    /\ \E text \in Documents : \E character \in Cursors(text) :
        /\ call' = [op |-> "hover", text |-> text, character |-> character,
                    saw |-> ObjectKeys(commandDescriptions), during |-> pc]
        /\ reply' = provideHover(commandDescriptions, text, character)
    /\ pc' = "return"
    /\ UNCHANGED <<commandDescriptions, newKeys, pass, settled>>

Complete ==
    /\ CallbackMayStart
    /\ \E text \in Documents : \E character \in Cursors(text) :
        /\ call' = [op |-> "complete", text |-> text, character |-> character,
                    saw |-> ObjectKeys(commandDescriptions), during |-> pc]
        /\ reply' = provideCompletionItems(commandDescriptions, text, character)
    /\ pc' = "return"
    /\ UNCHANGED <<commandDescriptions, newKeys, pass, settled>>

\* the callback's value goes to the host, which may then start another
Return ==
    /\ pc = "return"
    /\ call' = NoCall
    /\ reply' = NoReply
    /\ pc' = "idle"
    /\ UNCHANGED <<commandDescriptions, newKeys, pass, settled>>

Next == Load \/ Reload \/ Prune \/ Hover \/ Complete \/ Return

Spec == Init /\ [][Next]_vars

(***************************************************************************)
(* What the claims speak of, said without the code's own operators.        *)
(***************************************************************************)

\* p is a leading part of s
IsPrefix(p, s) ==
    /\ Len(p) <= Len(s)
    /\ \A i \in 1..Len(p) : s[i] = p[i]

\* the commands of the last pass, in the order they were parsed
PassCommands == Flatten(pass.results)
PassNames == {PassCommands[i].command : i \in 1..Len(PassCommands)}

\* the description the pass gave a name last
LastParsed(name) ==
    PassCommands[Max({i \in 1..Len(PassCommands) : PassCommands[i].command = name})]

\* a source whose parse raises: no tree, or a command whose value is neither
\* a string nor a mapping, a sequence or null
SourceFails(src) ==
    \/ src.ydef.t = "null"
    \/ \E i \in 1..Len(src.ydef.e) :
            src.ydef.e[i].v.t \notin {"string", "mapping", "sequence", "null"}

\* the command names a source defines: an alias names its target
SourceNames(src) ==
    {IF src.ydef.e[i].v.t = "string" THEN src.ydef.e[i].v.s ELSE src.ydef.e[i].k :
        i \in 1..Len(src.ydef.e)}

\* C1: after a reload has completed, the registry's keys are exactly the
\* command names of that reload's parse pass, each with the description the
\* pass parsed for it; every other key it held before is gone.
C1_RegistryIsExactlyThePass ==
    pc = "idle" =>
        /\ OwnKeys(commandDescriptions) = PassNames
        /\ \A name \in PassNames : Get(commandDescriptions, name).d = LastParsed(name)

\* C2: a hover or a completion never sees the registry between the two halves
\* of a reload: what it sees is the registry as a completed reload left it.
C2_ReadersSeeSettledRegistry ==
    call.op # "none" =>
        /\ call.during = "idle"
        /\ call.saw = ObjectKeys(settled)

\* a lookup served after a reload that both added commands and pruned stale ones
C2_Witness ==
    /\ call.op = "hover"
    /\ pass.pruned # {}
    /\ PassNames # {}
    /\ call.saw = ObjectKeys(commandDescriptions)

\* C3: when the parse of one source of a pass raises, init does not raise, the
\* failing source gives the pass no entry, and every command of every other
\* source of the pass is in the registry afterwards.
C3_FailingSourceIsIsolated ==
    pc = "idle" =>
        /\ ~pass.raised
        /\ Len(pass.results) = Len(pass.sources)
        /\ \A i \in 1..Len(pass.sources) :
            IF SourceFails(pass.sources[i])
            THEN pass.results[i].cmds = <<>> /\ pass.results[i].reported
            ELSE /\ ~pass.results[i].reported
                 /\ {pass.results[i].cmds[j].command : j \in 1..Len(pass.results[i].cmds)}
                        = SourceNames(pass.sources[i])
                 /\ SourceNames(pass.sources[i]) \subseteq OwnKeys(commandDescriptions)

\* a completed pass of several sources, one failing after a well-formed entry
\* and another one defining commands
C3_Witness ==
    /\ pc = "idle"
    /\ Len(pass.sources) >= 2
    /\ \E i, j \in 1..Len(pass.sources) :
        /\ SourceFails(pass.sources[i])
        /\ pass.sources[i].ydef.e[1].v.t = "null"
        /\ ~SourceFails(pass.sources[j])
        /\ SourceNames(pass.sources[j]) # {}
        /\ SourceNames(pass.sources[j]) \subseteq OwnKeys(commandDescriptions)

\* C9: hover never raises, and gives a result exactly when the resolved word
\* is a key of the registry: then that command's description at FULL detail
\* with its signature, over the span of the word.
C9_HoverIffRegistered ==
    call.op = "hover" =>
        LET w == getWordAtCursor(call.text, call.character)
        IN  /\ reply.t # "throw"
            /\ reply.t = "hover" <=> (w.defined /\ w.word \in OwnKeys(commandDescriptions))
            /\ reply.t = "hover" =>
                /\ reply.text = format(Get(commandDescriptions, w.word).d, FULL, TRUE).s
                /\ reply.start = w.start
                /\ reply.end = w.end

\* the labels of the completion items of the reply
Labels == [i \in 1..Len(reply.items) |-> reply.items[i].label]

\* where a key stands in the registry's iteration order
KeyPosition(k) ==
    CHOOSE i \in 1..Len(ObjectKeys(commandDescriptions)) : ObjectKeys(commandDescriptions)[i] = k

\* the registry of the claim's example: play, play_pattern and stop
NamePlay == <<"p", "l", "a", "y">>
NamePlayPattern == <<"p", "l", "a", "y", "_", "p", "a", "t", "t", "e", "r", "n">>
NameStop == <<"s", "t", "o", "p">>
PlayRegistry ==
    AssignAll(<<>>, parseYamlDefinitions(YMapping(<<
        [k |-> NamePlay, v |-> YNull],
        [k |-> NamePlayPattern, v |-> YNull],
        [k |-> NameStop, v |-> YNull]>>)).cmds)

\* the prefix "pla" gives play and play_pattern, and not stop
CompletionExample ==
    LET r == provideCompletionItems(PlayRegistry, <<"p", "l", "a">>, 3)
    IN  [i \in 1..Len(r.items) |-> r.items[i].label] = <<NamePlay, NamePlayPattern>>

\* C10: completion on a resolved prefix gives one suggestion for each registry
\* key that starts with it, labelled with the key, in the registry's iteration
\* order, and none for any other key; on an absent word it gives nothing.
C10_CompletionIsPrefixMatch ==
    /\ CompletionExample
    /\ call.op = "complete" =>
        LET w == getWordAtCursor(call.text, call.character)
        IN  IF ~w.defined THEN reply.t = "undefined"
            ELSE /\ reply.t = "items"
                 /\ {Labels[i] : i \in 1..Len(Labels)}
                        = {k \in OwnKeys(commandDescriptions) : IsPrefix(w.word, k)}
                 /\ \A i, j \in 1..Len(Labels) :
                        i < j => KeyPosition(Labels[i]) < KeyPosition(Labels[j])

\* the prefix "a" in a registry that holds a, ab and b
C10_Witness ==
    /\ call.op = "complete"
    /\ getWordAtCursor(call.text, call.character).word = NameA
    /\ {NameA, NameAB, NameB} \subseteq OwnKeys(commandDescriptions)
    /\ reply.t = "items"
    /\ {Labels[i] : i \in 1..Len(Labels)} = {NameA, NameAB}

(***************************************************************************)
(* getWordAtCursor on every line and cursor within the bounds.             *)
(***************************************************************************)

\* a letter of each case, a digit, the underscore, the apostrophe, the
\* character of the comment marker, and white space
LineAlphabet == {"a", "Z", "7", "_", "'", "-", " "}
Lines == UNION {[1..n -> LineAlphabet] : n \in 0..MaxLineLen}

Dormant ==
    /\ commandDescriptions = <<>>
    /\ pc = "idle"
    /\ newKeys = {}
    /\ pass = NoPass
    /\ settled = <<>>

InitWord ==
    /\ Dormant
    /\ call \in {[op |-> "word", text |-> l, character |-> c, saw |-> <<>>, during |-> "idle"] :
                    l \in Lines, c \in 0..(MaxLineLen + 1)}
    /\ reply = NoReply

Resolve ==
    /\ call.op = "word"
    /\ reply = NoReply
    /\ reply' = getWordAtCursor(call.text, call.character)
    /\ UNCHANGED <<commandDescriptions, pc, newKeys, pass, settled, call>>

NextWord == Resolve

SpecWord == InitWord /\ [][NextWord]_vars

\* [0-9a-zA-Z_] and [0-9a-zA-Z_']
IdentifierChars == Digit \cup Lower \cup Upper \cup {"_"}
IdentifierCharsAndApostrophe == IdentifierChars \cup {"'"}

\* where a "--" begins in L
CommentStarts(L) == {i \in 1..(Len(L) - 1) : L[i] = "-" /\ L[i + 1] = "-"}

\* L without the text from its first "--" on, and without trailing white space
Trimmed(L) ==
    LET U == IF CommentStarts(L) = {} THEN L
             ELSE SubSeq(L, 1, Min(CommentStarts(L)) - 1)
    IN  SubSeq(U, 1, Max({k \in 0..Len(U) : k = 0 \/ U[k] \notin Whitespace}))

\* what the claim says of line L and cursor c, for the result r
WordAsClaimed(L, c, r) ==
    LET T == Trimmed(L)
    IN  IF c > Len(T) THEN ~r.defined
        ELSE LET s == Min({x \in 0..c : \A i \in (x + 1)..c : T[i] \in IdentifierChars})
                 e == Max({x \in c..Len(T) :
                            \A i \in (c + 1)..x : T[i] \in IdentifierCharsAndApostrophe})
             IN  /\ r.defined
                 /\ r.start = s
                 /\ r.end = e
                 /\ r.word = SubSeq(T, s + 1, e)
                 /\ s <= c /\ c <= e /\ e <= Len(T)

Play70Comment ==
    <<"p", "l", "a", "y", " ", "7", "0", " ", "-", "-", " ", "c", "o", "m", "m", "e", "n", "t">>
FooBar == <<"f", "o", "o", "'", "b", "a", "r">>

\* the cases the claim names
WordExamples ==
    /\ getWordAtCursor(Play70Comment, 4)
            = [defined |-> TRUE, word |-> <<"p", "l", "a", "y">>, start |-> 0, end |-> 4]
    /\ getWordAtCursor(Play70Comment, 7)
            = [defined |-> TRUE, word |-> <<"7", "0">>, start |-> 5, end |-> 7]
    /\ \A c \in 8..19 : ~getWordAtCursor(Play70Comment, c).defined
    /\ getWordAtCursor(FooBar, 3)
            = [defined |-> TRUE, word |-> FooBar, start |-> 0, end |-> 7]

\* C8: with T the line without its comment and trailing white space, a cursor
\* beyond T gives no word; any other cursor c gives the word T[s..e) and the
\* span [s,e), s the least offset with T[s..c) in [0-9a-zA-Z_] and e the
\* greatest with T[c..e) in [0-9a-zA-Z_'], so that s <= c <= e <= length(T).
C8_WordResolution ==
    /\ WordExamples
    /\ (call.op = "word" /\ reply # NoReply) =>
            WordAsClaimed(call.text, call.character, reply)

\* a cursor inside a word that runs over an apostrophe, on a line that is trimmed
C8_Witness ==
    /\ call.op = "word"
    /\ call.text = <<"a", "'", "a", " ">>
    /\ call.character = 1
    /\ reply = [defined |-> TRUE, word |-> <<"a", "'", "a">>, start |-> 0, end |-> 3]

\* a cursor between two characters that are not of an identifier: the empty word
C8_EmptyWordWitness ==
    /\ call.op = "word"
    /\ call.text = <<"-", " ", "-">>
    /\ call.character = 1
    /\ reply = [defined |-> TRUE, word |-> <<>>, start |-> 1, end |-> 1]

(***************************************************************************)
(* parseYamlDefinitions, and format of what it gives, on every descriptor  *)
(* within the bounds.                                                      *)
(***************************************************************************)
NameP == <<"p">>
ParameterNamePool == <<<<"x">>, <<"y">>, <<"z">>, <<"w">>>>
ExamplePool == <<<<"e">>, <<"f">>, <<"g">>, <<"i">>>>

\* the properties a descriptor may hold for its signature, help, parameters,
\* returns and examples; <<>> is the property left out
SignatureProperties ==
    {<<>>,
     <<[k |-> <<"c", "m", "d">>, v |-> YString(<<"p", " ", "x">>)]>>,
     <<[k |-> <<"c", "m", "d">>, v |-> YSequence(<<>>)]>>,
     <<[k |-> <<"f", "o", "r", "m", "a", "t", "t", "e", "d", "C", "o", "m", "m", "a", "n", "d">>,
        v |-> YSequence(<<YString(<<"p">>), YNumber(<<"7">>)>>)]>>}
HelpProperties ==
    {<<>>,
     <<[k |-> HelpKey, v |-> YString(<<"h">>)]>>,
     <<[k |-> <<"d", "o", "c">>, v |-> YString(<<>>)]>>}
ParameterProperties ==
    {<<>>}
        \cup {<<[k |-> ParamsKey,
                 v |-> YMapping([i \in 1..n |->
                        [k |-> ParameterNamePool[i],
                         v |-> IF i = 1 THEN YString(<<"n">>) ELSE YNumber(<<"1">>)]])]>> :
                n \in 0..MaxParams}
ReturnProperties ==
    {<<>>, <<[k |-> <<"r", "e", "t", "u", "r", "n", "s">>, v |-> YString(<<"r">>)]>>}
ExampleProperties ==
    {<<>>, <<[k |-> <<"e", "x", "a", "m", "p", "l", "e">>, v |-> YString(<<"e">>)]>>}
        \cup {<<[k |-> <<"e", "x", "a", "m", "p", "l", "e", "s">>,
                 v |-> YSequence([i \in 1..(n + 1) |->
                        IF i = 1 THEN YNumber(<<"0">>) ELSE YString(ExamplePool[i - 1])])]>> :
                n \in 0..MaxExamples}

\* the values a command name may be given
Descriptors ==
    {YNull, YString(NameA), YNumber(<<"7">>)}
        \cup {YMapping(s \o h \o q \o r \o x) :
                s \in SignatureProperties, h \in HelpProperties, q \in ParameterProperties,
                r \in ReturnProperties, x \in ExampleProperties}

InitParse ==
    /\ Dormant
    /\ call \in {[op |-> "parse", descriptor |-> v] : v \in Descriptors}
    /\ reply = NoReply

\* parseYamlDefinitions of a tree that gives the command p the descriptor
Parse ==
    /\ call.op = "parse"
    /\ reply = NoReply
    /\ LET r == parseYamlDefinitions(YMapping(<<[k |-> NameP, v |-> call.descriptor]>>))
       IN  reply' = [t |-> "parsed", ok |-> r.ok, cmds |-> r.cmds]
    /\ UNCHANGED <<commandDescriptions, pc, newKeys, pass, settled, call>>

\* format of the description parsed, at a detail level, with the signature or without
FormatParsed ==
    /\ reply # NoReply
    /\ reply.t = "parsed"
    /\ reply.ok
    /\ \E detailLevel \in DetailLevels, withCommand \in BOOLEAN :
        reply' = [t |-> "formatted", ok |-> TRUE, cmds |-> reply.cmds,
                  detailLevel |-> detailLevel, withCommand |-> withCommand,
                  text |-> format(reply.cmds[1], detailLevel, withCommand)]
    /\ UNCHANGED <<commandDescriptions, pc, newKeys, pass, settled, call>>

NextParse == Parse \/ FormatParsed

SpecParse == InitParse /\ [][NextParse]_vars

\* the value of the property of a descriptor that has one of the names, if any
HasProperty(v, names) ==
    v.t = "mapping" /\ \E i \in 1..Len(v.e) : v.e[i].k \in names
PropertyValue(v, names) ==
    v.e[CHOOSE i \in 1..Len(v.e) : v.e[i].k \in names].v

\* the strings of an example value, in order: a string is one, a sequence its strings
ExampleStrings(value) ==
    IF value.t = "string" THEN <<value.s>>
    ELSE IF value.t = "sequence" THEN StringsOf(value.e)
    ELSE <<>>

\* needle occurs somewhere in s
Contains(s, needle) == \E i \in 0..Len(s) : OccursAt(s, needle, i)

\* s ends with tail
EndsWith(s, tail) ==
    Len(tail) <= Len(s) /\ SubSeq(s, Len(s) - Len(tail) + 1, Len(s)) = tail

\* the signature the claim expects of a descriptor that supplies none
SynthesizedSignature(command, v) ==
    IF HasProperty(v, ParameterNames)
    THEN LET ps == PropertyValue(v, ParameterNames).e
         IN  command \o <<" ">> \o Join([i \in 1..Len(ps) |-> ps[i].k], <<" ">>)
    ELSE command \o <<" ", "?">>

\* C4: a command parsed from a descriptor that supplies no signature has the one
\* synthesized signature block, "<command> " and its parameter names in order,
\* or "<command> ?" without a parameters key; the signature is never empty.
\* (The block may carry the indentation the constructor gives every block.)
C4_SignatureIsSynthesized ==
    (call.op = "parse" /\ reply # NoReply /\ reply.ok) =>
        LET v == call.descriptor
            d == reply.cmds[1]
        IN  /\ d.formattedCommand # <<>> \/ HasProperty(v, SignatureNames)
            /\ (TypeOf(v) = "object" /\ ~HasProperty(v, SignatureNames)) =>
                    \/ d.formattedCommand = <<SynthesizedSignature(d.command, v)>>
                    \/ d.formattedCommand = <<Indent \o SynthesizedSignature(d.command, v)>>

\* C5: a descriptor whose example or examples property is a string or a
\* sequence holding k >= 1 strings gives a description with one example block
\* for each string, in order, and its text at FULL detail holds the heading
\* "Examples:" and those blocks.
C5_ExamplesAreKept ==
    (call.op = "parse" /\ reply # NoReply /\ reply.ok
        /\ HasProperty(call.descriptor, ExampleNames)
        /\ ExampleStrings(PropertyValue(call.descriptor, ExampleNames)) # <<>>) =>
        LET strings == ExampleStrings(PropertyValue(call.descriptor, ExampleNames))
            d == reply.cmds[1]
        IN  /\ Len(d.examples) = Len(strings)
            /\ \A i \in 1..Len(strings) : Contains(d.examples[i], strings[i])
            /\ (reply.t = "formatted" /\ reply.detailLevel = FULL) =>
                    /\ Contains(reply.text.s, ExamplesHeading)
                    /\ \A i \in 1..Len(strings) : Contains(reply.text.s, d.examples[i])

\* C6: at every detail level but OFF, with the signature or without, the text
\* neither begins nor ends with the horizontal rule.
C6_NoLeadingOrTrailingRule ==
    (call.op = "parse" /\ reply # NoReply /\ reply.t = "formatted"
        /\ reply.detailLevel # OFF) =>
        /\ reply.text.t = "string"
        /\ ~StartsWith(reply.text.s, hline)
        /\ ~EndsWith(reply.text.s, hline)

(***************************************************************************)
(* format on every description the constructor makes of a config within    *)
(* the bounds; the configs the parser makes are among them.                *)
(***************************************************************************)
SignatureConfigs ==
    {Undefined,
     OneString(<<"p", " ", "x">>),
     OneString(Indent \o <<Backquote, "p", Backquote>>),
     ArrayOf(<<>>),
     ArrayOf(<<<<"p">>, <<"p", " ", "x">>>>)}
ParameterConfigs ==
    {Undefined}
        \cup {ArrayOf([i \in 1..n |->
                SonicPiParameterDescription(ParameterNamePool[i], <<"n">>,
                    IF i = 1 THEN "true" ELSE "undefined", type)]) :
                n \in 0..MaxParams, type \in {"undefined", "ANY"}}
TextConfigs == {Undefined, OneString(<<>>), OneString(<<"h">>)}
ExampleConfigs ==
    {Undefined, OneString(<<"e">>)}
        \cup {ArrayOf([i \in 1..n |-> ExamplePool[i] \o <<" ", "\n", "\n">>]) :
                n \in 0..MaxExamples}

Configs ==
    {[command |-> NameP, formattedCommand |-> s, parameters |-> q,
      returns |-> r, help |-> h, examples |-> x] :
        s \in SignatureConfigs, q \in ParameterConfigs, r \in {Undefined, OneString(<<"r">>)},
        h \in TextConfigs, x \in ExampleConfigs}

InitFormat ==
    /\ Dormant
    /\ call \in {[op |-> "format", config |-> c, withCommand |-> b] :
                    c \in Configs, b \in BOOLEAN}
    /\ reply = NoReply

\* format of the description new SonicPiCommandDescription(config) at one level
Format ==
    /\ call.op = "format"
    /\ reply = NoReply
    /\ \E detailLevel \in DetailLevels :
        reply' = [t |-> "formatted", detailLevel |-> detailLevel,
                  text |-> format(NewCommandDescription(call.config), detailLevel,
                                  call.withCommand)]
    /\ UNCHANGED <<commandDescriptions, pc, newKeys, pass, settled, call>>

NextFormat == Format

SpecFormat == InitFormat /\ [][NextFormat]_vars

\* the text one level below, for the same description and includeSignature
TextBelow == format(NewCommandDescription(call.config), reply.detailLevel - 1, call.withCommand).s

\* C7 as stated: the text at each level above MINIMUM has the text of the
\* level below as a leading prefix, with strictly more appended.
C7_StrictlyMonotonic ==
    (call.op = "format" /\ reply # NoReply
        /\ reply.detailLevel \in {NO_EXAMPLES_NO_LINKS, FULL}) =>
        /\ IsPrefix(TextBelow, reply.text.s)
        /\ Len(reply.text.s) > Len(TextBelow)

\* the description has something the level adds to the level below
LevelHasContent ==
    LET d == NewCommandDescription(call.config)
    IN  IF reply.detailLevel = FULL THEN d.examples # <<>>
        ELSE \/ d.parameters # <<>>
             \/ d.returns.t # "undefined"
             \/ d.help.t # "undefined" /\ (d.help.s # <<>> \/ TextBelow # <<>>)

\* C7, amended: the text at each level above MINIMUM has the text of the level
\* below as a leading prefix; more is appended exactly when the description
\* has something that level adds (for NO_EXAMPLES_NO_LINKS parameters, a
\* returns text, or a help text that is not empty or follows a signature; for
\* FULL examples), and otherwise the two texts are equal.
C7_Monotonic ==
    (call.op = "format" /\ reply # NoReply
        /\ reply.detailLevel \in {NO_EXAMPLES_NO_LINKS, FULL}) =>
        /\ IsPrefix(TextBelow, reply.text.s)
        /\ Len(reply.text.s) > Len(TextBelow) <=> LevelHasContent

\* FULL of a description with a signature, help, parameters and two examples,
\* which adds its examples to the text below
C7_Witness ==
    /\ call.op = "format"
    /\ reply # NoReply
    /\ reply.detailLevel = FULL
    /\ call.withCommand
    /\ call.config.help = OneString(<<"h">>)
    /\ call.config.parameters.t = "array" /\ Len(call.config.parameters.a) = 2
    /\ call.config.examples.t = "array" /\ Len(call.config.examples.a) = 2
    /\ Len(reply.text.s) > Len(TextBelow)
    /\ IsPrefix(TextBelow, reply.text.s)

====
